---- MODULE Spec2Model ----
(***************************************************************************)
(* CAMS helper library (cams/lib.py) and the genmodels management command  *)
(* (cams/management/commands/genmodels.py).                                *)
(*                                                                         *)
(* Four specifications share the module:                                   *)
(*   SpecHsize   hsize() applied to bounded byte counts                    *)
(*   SpecLib     module import of lib.py, then getconfig/theme/mkcontext   *)
(*   SpecModels  configmodels()/configfields() applied to bounded schemas  *)
(*   SpecGen     one run of Command.handle over a bounded file system      *)
(***************************************************************************)
EXTENDS Integers, Sequences, FiniteSets, TLC

VARIABLES
    hin, hout,                                  \* hsize: argument, result
    cfgfile, themefile, lpc, jsondata, themes,  \* lib.py module state
    log, call, ret,                             \* lib.py: stdout, last call, its result
    schema, modelsOut, fieldsOut,               \* genmodels.py: jsonconfig, configmodels/configfields results
    gpc,                                        \* Command.handle: position in the run
    db, dbBackup, gcfg, missing, dirs, themecfg, \* files the run touches
    themeindices, themecss, fontfiletype, gthemes, \* locals of handle
    out, exc, reads,                            \* printed lines, uncaught exception, what was read
    start                                       \* db, backup and themecfg.json as the run found them

hVars == <<hin, hout>>
libVars == <<cfgfile, themefile, lpc, jsondata, themes, log, call, ret>>
mVars == <<schema, modelsOut, fieldsOut>>
gVars == <<gpc, db, dbBackup, gcfg, missing, dirs, themecfg, themeindices, themecss,
           fontfiletype, gthemes, out, exc, reads, start>>
vars == <<hVars, libVars, mVars, gVars>>

NoneV == "<None>"

Max(a, b) == IF a >= b THEN a ELSE b

(***************************************************************************)
(* hsize (lib.py 41-49).  A byte count is held in base-1024 limbs,         *)
(* least significant first, so that counts up to 1024^8 stay inside TLC's  *)
(* integers.  Python converts the int to a float64 at the first            *)
(* "fsize /= 1024.0"; the conversion rounds to 53 significant bits, ties   *)
(* to even; the later divisions by 1024.0 are exact.                       *)
(***************************************************************************)
Base == 1024
MantBits == 53
LimbBits == 10
Units == <<" ", "Ki", "Mi", "Gi", "Ti", "Pi", "Ei", "Zi">>
TopLimb == Len(Units)
Limbs == 0..TopLimb

Bit(m, j) == (m[j \div LimbBits] \div (2 ^ (j % LimbBits))) % 2

TopBit(m) ==
    LET S == {j \in 0..(LimbBits * (TopLimb + 1) - 1) : Bit(m, j) = 1}
    IN IF S = {} THEN -1 ELSE CHOOSE j \in S : \A k \in S : k <= j

RECURSIVE AddAt(_, _, _)
AddAt(m, i, v) ==
    IF m[i] + v < Base THEN [m EXCEPT ![i] = m[i] + v]
    ELSE AddAt([m EXCEPT ![i] = m[i] + v - Base], i + 1, 1)

\* int -> float64 (PyLong_AsDouble): round to nearest, ties to even
ToFloat(m) ==
    LET p == TopBit(m)
    IN IF p < MantBits THEN m
       ELSE LET q == p - (MantBits - 1)
                a == q \div LimbBits
                r == q % LimbBits
                half == Bit(m, q - 1)
                sticky == \E j \in 0..(q - 2) : Bit(m, j) = 1
                lsb == Bit(m, q)
                up == half = 1 /\ (sticky \/ lsb = 1)
                trunc == [i \in Limbs |->
                            IF i < a THEN 0
                            ELSE IF i = a THEN m[i] - (m[i] % (2 ^ r))
                            ELSE m[i]]
            IN IF up THEN AddAt(trunc, a, 2 ^ r) ELSE trunc

\* the value of fsize: m / 1024^sh, an int before the first division
IntVal(m) == [isint |-> TRUE, m |-> m, sh |-> 0]

\* fsize /= 1024.0
TrueDiv(fs) ==
    IF fs.isint THEN [isint |-> FALSE, m |-> ToFloat(fs.m), sh |-> 1]
    ELSE [fs EXCEPT !.sh = fs.sh + 1]

\* abs(fsize) < 1024.0
AbsLt1024(fs) == \A i \in Limbs : i > fs.sh => fs.m[i] = 0

\* m / 1024^sh rounded to an integer, ties to even (what ".0f" prints);
\* used when the value is below 1024 * 1024^sh
RoundHE(m, sh) ==
    LET ip == m[sh]
    IN IF sh = 0 THEN ip
       ELSE LET h == m[sh - 1]
                low == \E i \in 0..(sh - 2) : m[i] # 0
                up == h > Base \div 2 \/ (h = Base \div 2 /\ (low \/ ip % 2 = 1))
            IN IF up THEN ip + 1 ELSE ip

Digits(v) == IF v < 10 THEN 1 ELSE IF v < 100 THEN 2 ELSE IF v < 1000 THEN 3 ELSE 4

\* f"{fsize:3.0f}{unit}{suffix}"
Fmt30f(fs, unit) ==
    LET v == RoundHE(fs.m, fs.sh)
    IN [kind |-> "return", mag |-> v, width |-> Max(3, Digits(v)),
        unit |-> unit, suffix |-> "Bytes"]

NameErrorNum == [kind |-> "NameError", mag |-> 0, width |-> 0, unit |-> "Yi", suffix |-> "Bytes"]

RECURSIVE HLoop(_, _)
HLoop(u, fs) ==
    IF u > Len(Units) THEN NameErrorNum
    ELSE IF AbsLt1024(fs) THEN Fmt30f(fs, Units[u])
    ELSE HLoop(u + 1, TrueDiv(fs))

hsize(fsize) == HLoop(1, IntVal(fsize))

LimbVals == {0, 1, 512, 1023}
HInputs == {m \in [Limbs -> LimbVals] : m[TopLimb] \in {0, 1}}
NotCalled == [kind |-> "none", mag |-> 0, width |-> 0, unit |-> "", suffix |-> ""]


(***************************************************************************)
(* lib.py module state.  Importing the module runs lines 12-16 (config     *)
(* load) and lines 81-86 (theme registry load); printe is bound only at    *)
(* line 19, after the config load.                                         *)
(***************************************************************************)
MaxLog == 3

ConfigKeys == {"misc", "navbar"}
ThemeNames == {"default", "dark"}
Section(k) == [section |-> k]
Desc(n) == [int_name |-> n]
ConfigOf(S) == [k \in S |-> Section(k)]
RegistryOf(S) == [n \in S |-> Desc(n)]

CfgFiles ==
    {[state |-> "absent", data |-> << >>], [state |-> "malformed", data |-> << >>]}
    \cup {[state |-> "ok", data |-> ConfigOf(S)] : S \in SUBSET ConfigKeys}
ThemeFiles ==
    {[state |-> "absent", data |-> << >>], [state |-> "malformed", data |-> << >>]}
    \cup {[state |-> "ok", data |-> RegistryOf(S)] : S \in SUBSET ThemeNames}

Value(v) == [kind |-> "value", val |-> v]
PyNone == [kind |-> "None"]
Raise(e) == [kind |-> "raise", exc |-> e]
Msg(m, a) == [msg |-> m, arg |-> a]

\* lines 12-16: the else branch calls printe before line 19 has bound it
ConfigLoad(cf, lg) ==
    IF cf.state = "ok" THEN [ret |-> PyNone, jsondata |-> cf.data, log |-> lg]
    ELSE IF cf.state = "malformed"
        THEN [ret |-> Raise("JSONDecodeError"), jsondata |-> << >>, log |-> lg]
    ELSE [ret |-> Raise("NameError"), jsondata |-> << >>, log |-> lg]

\* lines 81-86
ThemesLoad(tf, lg) ==
    IF tf.state = "ok" THEN [ret |-> PyNone, themes |-> tf.data, log |-> lg]
    ELSE IF tf.state = "malformed"
        THEN [ret |-> Raise("JSONDecodeError"), themes |-> << >>, log |-> lg]
    ELSE [ret |-> PyNone, themes |-> << >>,
          log |-> Append(lg, Msg("ERROR: themecfg.json does not exist", NoneV))]

\* lines 26-31
getconfig(jd, lg, part) ==
    IF part \in DOMAIN jd THEN [ret |-> Value(jd[part]), log |-> lg]
    ELSE [ret |-> PyNone, log |-> Append(lg, Msg("WARNING: Key does not exist", part))]

\* theme() with the fallback taken silently (no printe call)
theme_silent(reg, lg, tname) ==
    IF tname \in DOMAIN reg THEN [ret |-> Value(reg[tname]), log |-> lg]
    ELSE IF "default" \in DOMAIN reg THEN [ret |-> Value(reg["default"]), log |-> lg]
    ELSE [ret |-> Raise("KeyError"), log |-> lg]

\* lines 89-94
theme(reg, lg, tname) ==
    IF tname \in DOMAIN reg THEN [ret |-> Value(reg[tname]), log |-> lg]
    ELSE LET lg2 == Append(lg, Msg("WARNING: Theme not found, using default", tname))
         IN IF "default" \in DOMAIN reg
            THEN [ret |-> Value(reg["default"]), log |-> lg2]
            ELSE [ret |-> Raise("KeyError"), log |-> lg2]

\* the flag table with the "table" profile also loading Select2
ScriptFlags_s2(scripts) ==
    IF scripts = "font" THEN [fa |-> TRUE, jq |-> FALSE, ts |-> FALSE, s2 |-> FALSE]
    ELSE IF scripts = "form" THEN [fa |-> FALSE, jq |-> TRUE, ts |-> FALSE, s2 |-> TRUE]
    ELSE IF scripts = "table" THEN [fa |-> TRUE, jq |-> TRUE, ts |-> TRUE, s2 |-> TRUE]
    ELSE [fa |-> FALSE, jq |-> FALSE, ts |-> FALSE, s2 |-> FALSE]

\* lines 58-77
ScriptFlags(scripts) ==
    IF scripts = "font" THEN [fa |-> TRUE, jq |-> FALSE, ts |-> FALSE, s2 |-> FALSE]
    ELSE IF scripts = "form" THEN [fa |-> FALSE, jq |-> TRUE, ts |-> FALSE, s2 |-> TRUE]
    ELSE IF scripts = "table" THEN [fa |-> TRUE, jq |-> TRUE, ts |-> TRUE, s2 |-> FALSE]
    ELSE [fa |-> FALSE, jq |-> FALSE, ts |-> FALSE, s2 |-> FALSE]

Omitted == "<omitted>"
\* line 52: scripts = "none" when the argument is omitted
ScriptsParam(a) == IF a = Omitted THEN "none" ELSE a

\* lines 52-79
mkcontext(reg, jd, lg, cookie, title, scriptsArg) ==
    LET t == theme(reg, lg, cookie)
        m == getconfig(jd, t.log, "misc")
        n == getconfig(jd, m.log, "navbar")
        f == ScriptFlags(ScriptsParam(scriptsArg))
    IN IF t.ret.kind = "raise" THEN t
       ELSE [ret |-> Value([title |-> title, styling |-> t.ret.val, misc |-> m.ret,
                            navbar |-> n.ret, ver |-> "__version__",
                            fa |-> f.fa, jq |-> f.jq, ts |-> f.ts, s2 |-> f.s2]),
             log |-> n.log]

RequestedThemes == {"default", "dark", "nonexistent", NoneV}
RequestedParts == {"misc", "navbar", "table"}
ScriptArgs == {"font", "form", "table", "none", "unknown", Omitted}
Cookies == {"dark", NoneV}

NoCall == [fn |-> "none", arg |-> NoneV]

LibInit ==
    /\ cfgfile \in CfgFiles /\ themefile \in ThemeFiles
    /\ lpc = "import" /\ jsondata = << >> /\ themes = << >> /\ log = << >>
    /\ call = NoCall /\ ret = [kind |-> "none"]

LibIdle ==
    /\ cfgfile = [state |-> "absent", data |-> << >>]
    /\ themefile = [state |-> "absent", data |-> << >>]
    /\ lpc = "import" /\ jsondata = << >> /\ themes = << >> /\ log = << >>
    /\ call = NoCall /\ ret = [kind |-> "none"]

\* import cams.lib: the module body, top to bottom
ImportLib ==
    /\ lpc = "import"
    /\ LET c == ConfigLoad(cfgfile, log)
           t == ThemesLoad(themefile, c.log)
       IN IF c.ret.kind = "raise"
          THEN lpc' = "failed" /\ ret' = c.ret /\ log' = c.log
               /\ UNCHANGED <<jsondata, themes>>
          ELSE IF t.ret.kind = "raise"
          THEN lpc' = "failed" /\ ret' = t.ret /\ log' = t.log
               /\ jsondata' = c.jsondata /\ UNCHANGED themes
          ELSE lpc' = "ready" /\ ret' = PyNone /\ log' = t.log
               /\ jsondata' = c.jsondata /\ themes' = t.themes
    /\ call' = [fn |-> "import", arg |-> NoneV]
    /\ UNCHANGED <<cfgfile, themefile, hVars, mVars, gVars>>

GetConfigCall ==
    /\ lpc = "ready"
    /\ \E part \in RequestedParts :
        LET r == getconfig(jsondata, log, part)
        IN /\ Len(r.log) <= MaxLog
           /\ ret' = r.ret /\ log' = r.log
           /\ call' = [fn |-> "getconfig", arg |-> part]
    /\ UNCHANGED <<cfgfile, themefile, lpc, jsondata, themes, hVars, mVars, gVars>>

ThemeCall ==
    /\ lpc = "ready"
    /\ \E tname \in RequestedThemes :
        LET r == theme(themes, log, tname)
        IN /\ Len(r.log) <= MaxLog
           /\ ret' = r.ret /\ log' = r.log
           /\ call' = [fn |-> "theme", arg |-> tname]
    /\ UNCHANGED <<cfgfile, themefile, lpc, jsondata, themes, hVars, mVars, gVars>>

MkContextCall ==
    /\ lpc = "ready"
    /\ \E cookie \in Cookies, scriptsArg \in ScriptArgs :
        LET r == mkcontext(themes, jsondata, log, cookie, "title", scriptsArg)
        IN /\ Len(r.log) <= MaxLog
           /\ ret' = r.ret /\ log' = r.log
           /\ call' = [fn |-> "mkcontext", arg |-> <<cookie, scriptsArg>>]
    /\ UNCHANGED <<cfgfile, themefile, lpc, jsondata, themes, hVars, mVars, gVars>>

HInit == hin \in HInputs /\ hout = NotCalled
HIdle == hin = [i \in Limbs |-> 0] /\ hout = NotCalled

HsizeCall ==
    /\ hout = NotCalled
    /\ hout' = hsize(hin)
    /\ UNCHANGED <<hin, libVars, mVars, gVars>>



(***************************************************************************)
(* configmodels / configfields (genmodels.py 43-161).  jsonconfig["table"] *)
(* is a sequence of groups in key order, each a list of column             *)
(* definitions; strings that the code inspects character by character      *)
(* (the datatype) are sequences of characters.                             *)
(***************************************************************************)
MaxCols == 2

DT_select == <<"s", "e", "l", "e", "c", "t">>
DT_string == <<"s", "t", "r", "i", "n", "g">>
DT_text == <<"t", "e", "x", "t">>
DT_date == <<"d", "a", "t", "e">>
Datatypes == {DT_select, DT_string, DT_text, DT_date, <<"s", "e", "l">>, << >>, <<"i", "n", "t">>}

\* Python's "a in b" for two strings: a is a contiguous part of b
StrIn(a, b) ==
    \E i \in 1..(Len(b) + 1) :
        i + Len(a) - 1 <= Len(b) /\ SubSeq(b, i, i + Len(a) - 1) = a

ColNames == <<"c1", "c2", "c3", "c4", "c5", "c6">>
\* a column definition; keys lists the optional keys ("ddfile", "max") it has
Columns ==
    [datatype : Datatypes, keys : {{}, {"ddfile", "max"}}]
ColLists(n) == UNION {[1..k -> Columns] : k \in 0..n}

\* the columns of all groups, in the order the loops visit them, each with
\* its group and its col name
RECURSIVE Flatten(_, _, _)
Flatten(table, g, base) ==
    IF g > Len(table) THEN << >>
    ELSE [i \in 1..Len(table[g].cols) |->
            [group |-> table[g].name, col |-> ColNames[base + i],
             datatype |-> table[g].cols[i].datatype, keys |-> table[g].cols[i].keys]]
         \o Flatten(table, g + 1, base + Len(table[g].cols))

AllCols(jsonconfig) == Flatten(jsonconfig.table, 1, 0)

\* lines 50-63 for one column y of group x
Decl(y) ==
    IF StrIn(y.datatype, DT_select)
        THEN IF "ddfile" \in y.keys
             THEN [kind |-> "decl", col |-> y.col, field |-> "CharField(choices)", group |-> y.group]
             ELSE [kind |-> "raise", col |-> y.col, field |-> "KeyError", group |-> y.group]
    ELSE IF y.datatype = DT_string
        THEN IF "max" \in y.keys
             THEN [kind |-> "decl", col |-> y.col, field |-> "CharField(max_length)", group |-> y.group]
             ELSE [kind |-> "raise", col |-> y.col, field |-> "KeyError", group |-> y.group]
    ELSE IF y.datatype = DT_text
        THEN [kind |-> "decl", col |-> y.col, field |-> "TextField", group |-> y.group]
    ELSE IF y.datatype = DT_date
        THEN [kind |-> "decl", col |-> y.col, field |-> "DateField", group |-> y.group]
    ELSE [kind |-> "warn", col |-> y.col, field |-> "Unknown datatype, skipping", group |-> y.group]

OfKind(ds, k) == SelectSeq(ds, LAMBDA d : d.kind = k)

\* lines 43-118: table is the field declarations, printed the warnings
configmodels(jsonconfig) ==
    LET cols == AllCols(jsonconfig)
        ds == [i \in 1..Len(cols) |-> Decl(cols[i])]
    IN IF \E i \in 1..Len(ds) : ds[i].kind = "raise"
       THEN [kind |-> "raise", table |-> << >>, printed |-> << >>, colnames |-> << >>]
       ELSE [kind |-> "return",
             table |-> OfKind(ds, "decl"),
             printed |-> OfKind(ds, "warn"),
             colnames |-> <<"inid">> \o [i \in 1..Len(cols) |-> cols[i].col]
                            \o <<"tcrd", "tmod">>]

\* lines 120-161
configfields(jsonconfig) ==
    LET cols == AllCols(jsonconfig)
        known == SelectSeq(cols, LAMBDA i : i.datatype \in {DT_date, DT_select, DT_string, DT_text})
        fields == [i \in 1..Len(known) |-> known[i].col]
    IN IF \E i \in 1..Len(known) : known[i].col \notin jsonconfig.headers
       THEN [kind |-> "raise", fields |-> << >>, labels |-> {}]
       ELSE [kind |-> "return", fields |-> fields,
             labels |-> {fields[i] : i \in 1..Len(fields)}]

Schemas ==
    {[table |-> <<[name |-> "contact", cols |-> c], [name |-> "extra", cols |-> d]>>,
      headers |-> h] :
        c \in ColLists(MaxCols), d \in ColLists(1),
        h \in {{ColNames[i] : i \in 1..Len(ColNames)},
               {ColNames[i] : i \in 2..Len(ColNames)}}}

NoOut == [kind |-> "none"]
MInit == schema \in Schemas /\ modelsOut = NoOut /\ fieldsOut = NoOut
MIdle ==
    /\ schema = [table |-> << >>, headers |-> {}]
    /\ modelsOut = NoOut /\ fieldsOut = NoOut

ConfigModelsCall ==
    /\ modelsOut = NoOut
    /\ modelsOut' = configmodels(schema)
    /\ UNCHANGED <<schema, fieldsOut, hVars, libVars, gVars>>

ConfigFieldsCall ==
    /\ fieldsOut = NoOut
    /\ fieldsOut' = configfields(schema)
    /\ UNCHANGED <<schema, modelsOut, hVars, libVars, gVars>>

(***************************************************************************)
(* Properties of configmodels / configfields                               *)
(***************************************************************************)
FourTypes == {DT_select, DT_string, DT_text, DT_date}

\* C9: a column whose datatype is not exactly one of select, string, text,
\* date gets a warning and no field declaration from configmodels and is
\* left out of configfields' field list and labels; the other columns are
\* still processed, and a declaration is emitted only for columns whose
\* datatype is exactly one of the four.
C9_UnknownDatatypeSkipped ==
    LET cols == AllCols(schema)
        good == SelectSeq(cols, LAMBDA y : y.datatype \in FourTypes)
        bad == SelectSeq(cols, LAMBDA y : y.datatype \notin FourTypes)
    IN /\ modelsOut.kind = "return" =>
            /\ [i \in 1..Len(modelsOut.table) |-> modelsOut.table[i].col]
                    = [i \in 1..Len(good) |-> good[i].col]
            /\ [i \in 1..Len(modelsOut.printed) |-> modelsOut.printed[i].col]
                    = [i \in 1..Len(bad) |-> bad[i].col]
       /\ fieldsOut.kind = "return" =>
            /\ fieldsOut.fields = [i \in 1..Len(good) |-> good[i].col]
            /\ fieldsOut.labels = {good[i].col : i \in 1..Len(good)}

\* the same statement for schemas none of whose datatypes is a proper part
\* of the word "select": there the code agrees with it
SkippedUnlessPartOfSelect ==
    (\A i \in 1..Len(AllCols(schema)) :
        LET dt == AllCols(schema)[i].datatype
        IN StrIn(dt, DT_select) => dt = DT_select) => C9_UnknownDatatypeSkipped


(***************************************************************************)
(* Command.handle (genmodels.py 166-244): one run of the generator over a  *)
(* file system holding db.sqlite3, db_backup.sqlite3, config/config.json,  *)
(* the directories under config/themes, the font and css files they name,  *)
(* and themecfg.json.  A css text is a sequence of tokens: whitespace,     *)
(* @font-face rules, and the rules of a stylesheet file.                   *)
(***************************************************************************)
MaxFonts == 2

FamilyNames == <<"main", "mono", "head", "alt">>
FontPaths == {"a.otf", "b.ttf", "c.woff"}
BaseCssPath == "base.css"
DirNames == <<"dark", "default">>
CssOf(dirname) == IF dirname = "dark" THEN "dark.css" ELSE "default.css"

\* pathlib.Path(p).suffix
Suffix(p) ==
    CASE p = "a.otf" -> ".otf" [] p = "b.ttf" -> ".ttf" [] p = "c.woff" -> ".woff"
      [] OTHER -> ""

WS == [t |-> "ws", family |-> "", filetype |-> "", data |-> ""]
Rule(src) == [t |-> "rule", family |-> "", filetype |-> "", data |-> src]
\* lines 219-225: the rule embeds the base64 text of the file at path
Face(family, filetype, path) ==
    [t |-> "fontface", family |-> family, filetype |-> filetype, data |-> path]
\* f.read() of a stylesheet: its rules and a final newline
Content(path) == <<Rule(path), WS>>
\* csscompressor.compress: whitespace goes, the rules stay in order
compress(css) == SelectSeq(css, LAMBDA k : k.t # "ws")

Exists(path, gone) == path # gone

Put(f, k, v) == [x \in DOMAIN f \cup {k} |-> IF x = k THEN v ELSE f[x]]

\* lines 168-172: the content of db_backup.sqlite3 after the backup step
\* when an older backup is kept instead of being replaced
BackupKeepOld(dbfile, bak) ==
    IF dbfile # "absent" /\ bak = "absent" THEN dbfile ELSE bak

\* lines 168-172: the content of db_backup.sqlite3 after the backup step
BackupOf(dbfile, bak) ==
    IF dbfile # "absent" THEN dbfile ELSE bak

\* lines 175-185 with a JSON error let through
ConfigOutcomeLax(cfg) ==
    IF cfg = "absent" THEN "returned"
    ELSE IF cfg = "nokey" THEN "crashed"
    ELSE "loaded"

\* lines 175-185: how the config load ends
ConfigOutcome(cfg) ==
    IF cfg = "absent" THEN "returned"
    ELSE IF cfg = "malformed" THEN "returned"
    ELSE IF cfg = "nokey" THEN "crashed"
    ELSE "loaded"

\* lines 187-190: the directories under config/themes, "common" removed
ListThemeDirs(ds) == SelectSeq(ds, LAMBDA d : d.name # "common")

\* lines 193-203
RECURSIVE DiscoverFrom(_, _, _)
DiscoverFrom(ds, i, acc) ==
    IF i > Len(ds) \/ acc.exc # "" THEN acc
    ELSE LET d == ds[i]
         IN DiscoverFrom(ds, i + 1,
              IF d.index = "missing"
                THEN [acc EXCEPT !.out = Append(@, Msg("WARNING: no index.json", d.name))]
              ELSE IF d.index = "malformed"
                THEN [acc EXCEPT !.out = Append(@, Msg("WARNING: JSON library", d.name))]
              ELSE IF d.index = "nokey"
                THEN [acc EXCEPT !.exc = "KeyError"]
              ELSE [acc EXCEPT !.themeindices = Append(@, d.theme)])

\* lines 211-214 with a default for other extensions
FontFormatDefault(ext, carried) ==
    IF ext = ".otf" THEN "opentype"
    ELSE IF ext = ".ttf" THEN "truetype"
    ELSE "truetype"

\* lines 211-214: fontfiletype after the if/elif; carried is its value
\* before ("unbound" before the first assignment)
FontFormat(ext, carried) ==
    IF ext = ".otf" THEN "opentype"
    ELSE IF ext = ".ttf" THEN "truetype"
    ELSE carried

\* every font of every theme, in loop order (lines 207-208)
RECURSIVE AllFonts(_)
AllFonts(ts) == IF ts = << >> THEN << >> ELSE Head(ts).fonts \o AllFonts(Tail(ts))

\* lines 209-225 for the fonts from position i on
RECURSIVE FontFacesFrom(_, _, _, _)
FontFacesFrom(fonts, i, gone, acc) ==
    IF i > Len(fonts) \/ acc.exc # "" THEN acc
    ELSE LET font == fonts[i]
             ft == FontFormat(Suffix(font.path), acc.fontfiletype)
         IN FontFacesFrom(fonts, i + 1, gone,
              IF ~Exists(font.path, gone)
                THEN [acc EXCEPT !.fontfiletype = ft, !.exc = "FileNotFoundError"]
              ELSE IF ft = "unbound"
                THEN [acc EXCEPT !.exc = "UnboundLocalError"]
              ELSE [acc EXCEPT !.fontfiletype = ft,
                               !.themecss = @ \o <<WS, Face(font.family, ft, font.path), WS>>])

\* line 235 taken as always true
IndexAlwaysExists(name, ds) == TRUE

\* lines 232-235: os.path.exists("config/themes/<int_name>/index.json")
IndexExistsAt(name, ds) ==
    \E i \in 1..Len(ds) : ds[i].name = name /\ ds[i].index # "missing"

\* lines 231-241
RECURSIVE CompileFrom(_, _, _, _, _, _)
CompileFrom(ts, i, ds, css, gone, acc) ==
    IF i > Len(ts) \/ acc.exc # "" THEN acc
    ELSE LET th == ts[i]
         IN CompileFrom(ts, i + 1, ds, css, gone,
              IF ~IndexExistsAt(th.int_name, ds)
                THEN [acc EXCEPT !.out = Append(@, Msg("WARNING: Theme directory has no index.json", th.int_name))]
              ELSE IF ~Exists(th.css, gone)
                THEN [acc EXCEPT !.exc = "FileNotFoundError"]
              ELSE [acc EXCEPT !.themes =
                        Put(@, th.int_name,
                            [th EXCEPT !.css = compress(css \o Content(th.css))])])

FontLists(n) ==
    UNION {{[i \in 1..k |-> [family |-> FamilyNames[i], path |-> f[i]]] : f \in [1..k -> FontPaths]}
           : k \in 0..n}
NoTheme == [int_name |-> "", fonts |-> << >>, css |-> ""]
DirsNamed(name) ==
    {[name |-> name, index |-> x, theme |-> NoTheme] : x \in {"missing", "malformed", "nokey"}}
    \cup {[name |-> name, index |-> "ok",
           theme |-> [int_name |-> n, fonts |-> fl, css |-> CssOf(name)]] :
            n \in {name, "night"}, fl \in FontLists(MaxFonts)}
CommonDir ==
    [name |-> "common", index |-> "ok",
     theme |-> [int_name |-> "common", fonts |-> << >>, css |-> "base.css"]]
\* os.listdir order is arbitrary; nothing in handle tells the two names apart
Trees ==
    {<<d1, d2>> \o c : d1 \in DirsNamed(DirNames[1]), d2 \in DirsNamed(DirNames[2]),
                       c \in {<< >>, <<CommonDir>>}}
SampleTree ==
    <<[name |-> "dark", index |-> "ok",
       theme |-> [int_name |-> "dark", css |-> "dark.css",
                  fonts |-> <<[family |-> "main", path |-> "a.otf"]>>]],
      [name |-> "default", index |-> "ok",
       theme |-> [int_name |-> "default", css |-> "default.css",
                  fonts |-> <<[family |-> "main", path |-> "b.ttf"]>>]]>>
OldRegistry ==
    [exists |-> TRUE,
     data |-> [n \in {"default", "old"} |->
                 [int_name |-> n, fonts |-> << >>, css |-> <<Rule("stale")>>]]]
NoRegistry == [exists |-> FALSE, data |-> << >>]
MissingPaths == {"", "a.otf", "base.css", "dark.css"}

GLocals ==
    /\ gpc = "start" /\ themeindices = << >> /\ themecss = << >>
    /\ fontfiletype = "unbound" /\ gthemes = << >> /\ out = << >> /\ exc = ""
    /\ reads = {}
    /\ start = [db |-> db, dbBackup |-> dbBackup, themecfg |-> themecfg]

\* the environment varies around a fixed theme tree, or the theme tree and
\* the missing file vary in an environment where the config loads
GInit ==
    /\ \/ /\ db \in {"absent", "D1"} /\ dbBackup \in {"absent", "B0"}
          /\ gcfg \in {"absent", "malformed", "nokey", "ok"}
          /\ themecfg \in {NoRegistry, OldRegistry}
          /\ missing = "" /\ dirs = SampleTree
       \/ /\ db = "D1" /\ dbBackup = "B0" /\ gcfg = "ok" /\ themecfg = OldRegistry
          /\ missing \in MissingPaths /\ dirs \in Trees
    /\ GLocals

GIdle ==
    /\ db = "absent" /\ dbBackup = "absent" /\ gcfg = "absent" /\ themecfg = NoRegistry
    /\ missing = "" /\ dirs = << >>
    /\ GLocals

\* lines 168-172
Backup ==
    /\ gpc = "start"
    /\ dbBackup' = BackupOf(db, dbBackup)
    /\ gpc' = "backed"
    /\ UNCHANGED <<db, gcfg, missing, dirs, themecfg, themeindices, themecss, fontfiletype,
                   gthemes, out, exc, reads, start, hVars, libVars, mVars>>

\* lines 175-185
LoadConfig ==
    /\ gpc = "backed"
    /\ gpc' = ConfigOutcome(gcfg)
    /\ reads' = IF gcfg = "absent" THEN reads ELSE reads \cup {"config/config.json"}
    /\ out' = IF gcfg = "absent"
                THEN Append(out, Msg("ERROR: config/config.json does not exist", "cwd"))
              ELSE IF gcfg = "malformed"
                THEN Append(out, Msg("ERROR: Exception raised by JSON library", "config"))
              ELSE out
    /\ exc' = IF ConfigOutcome(gcfg) = "crashed" THEN "KeyError" ELSE exc
    /\ UNCHANGED <<db, dbBackup, gcfg, missing, dirs, themecfg, themeindices, themecss,
                   fontfiletype, gthemes, start, hVars, libVars, mVars>>

\* lines 187-203
Discover ==
    /\ gpc = "loaded"
    /\ LET r == DiscoverFrom(ListThemeDirs(dirs), 1,
                             [themeindices |-> << >>, out |-> out, exc |-> ""])
       IN /\ themeindices' = r.themeindices
          /\ out' = r.out
          /\ exc' = r.exc
          /\ gpc' = IF r.exc = "" THEN "discovered" ELSE "crashed"
    /\ reads' = reads \cup {"config/themes"}
    /\ UNCHANGED <<db, dbBackup, gcfg, missing, dirs, themecfg, themecss, fontfiletype,
                   gthemes, start, hVars, libVars, mVars>>

\* lines 205-225
FontFaces ==
    /\ gpc = "discovered"
    /\ LET r == FontFacesFrom(AllFonts(themeindices), 1, missing,
                              [themecss |-> << >>, fontfiletype |-> fontfiletype, exc |-> ""])
       IN /\ themecss' = r.themecss
          /\ fontfiletype' = r.fontfiletype
          /\ exc' = r.exc
          /\ gpc' = IF r.exc = "" THEN "fonts" ELSE "crashed"
    /\ reads' = IF AllFonts(themeindices) = << >> THEN reads ELSE reads \cup {"fonts"}
    /\ UNCHANGED <<db, dbBackup, gcfg, missing, dirs, themecfg, themeindices, gthemes, out,
                   start, hVars, libVars, mVars>>

\* lines 227-228
BaseCss ==
    /\ gpc = "fonts"
    /\ IF Exists(BaseCssPath, missing)
       THEN themecss' = themecss \o Content(BaseCssPath) /\ gpc' = "base" /\ exc' = exc
       ELSE themecss' = themecss /\ gpc' = "crashed" /\ exc' = "FileNotFoundError"
    /\ reads' = reads \cup {"basecss"}
    /\ UNCHANGED <<db, dbBackup, gcfg, missing, dirs, themecfg, themeindices, fontfiletype,
                   gthemes, out, start, hVars, libVars, mVars>>

\* lines 230-241
Compile ==
    /\ gpc = "base"
    /\ LET r == CompileFrom(themeindices, 1, dirs, themecss, missing,
                            [themes |-> << >>, out |-> out, exc |-> ""])
       IN /\ gthemes' = r.themes
          /\ out' = r.out
          /\ exc' = r.exc
          /\ gpc' = IF r.exc = "" THEN "compiled" ELSE "crashed"
    /\ reads' = IF \E i \in 1..Len(themeindices) : IndexExistsAt(themeindices[i].int_name, dirs)
                THEN reads \cup {"themecss"} ELSE reads
    /\ UNCHANGED <<db, dbBackup, gcfg, missing, dirs, themecfg, themeindices, themecss,
                   fontfiletype, start, hVars, libVars, mVars>>

\* lines 243-244
WriteRegistry ==
    /\ gpc = "compiled"
    /\ themecfg' = [exists |-> TRUE, data |-> gthemes]
    /\ gpc' = "done"
    /\ UNCHANGED <<db, dbBackup, gcfg, missing, dirs, themeindices, themecss, fontfiletype,
                   gthemes, out, exc, reads, start, hVars, libVars, mVars>>


(***************************************************************************)
(* Properties of Command.handle                                            *)
(***************************************************************************)
\* the theme directories (other than "common") whose index.json exists and parses
ParsedDirs == SelectSeq(dirs, LAMBDA d : d.name # "common" /\ d.index = "ok")
\* the theme directories (other than "common") whose index.json is missing or malformed
BrokenDirs ==
    SelectSeq(dirs, LAMBDA d : d.name # "common" /\ d.index \in {"missing", "malformed"})
IntNames(ds) == {ds[i].theme.int_name : i \in 1..Len(ds)}
DirHasIndex(n) == \E i \in 1..Len(dirs) : dirs[i].name = n /\ dirs[i].index # "missing"
WarnedDirs ==
    {out[i].arg : i \in {j \in 1..Len(out) :
        out[j].msg \in {"WARNING: no index.json", "WARNING: JSON library"}}}
RunEnded == gpc \in {"done", "returned", "crashed"}

C6_ConfigFailureStopsRun ==
    (gcfg \in {"absent", "malformed"} /\ gpc \notin {"start", "backed"}) =>
        /\ gpc = "returned"
        /\ Len(out) = 1 /\ out[1].msg \in {"ERROR: config/config.json does not exist",
                                           "ERROR: Exception raised by JSON library"}
        /\ reads \subseteq {"config/config.json"}
        /\ themecfg = start.themecfg
        /\ themeindices = << >> /\ themecss = << >> /\ gthemes = << >> /\ exc = ""

\* a run has ended on a malformed config/config.json with an older registry in place
C6_Witness ==
    /\ gpc = "returned" /\ gcfg = "malformed"
    /\ themecfg = OldRegistry /\ Len(out) = 1

\* C7: with db.sqlite3 present the backup is the first thing done: from
\* then on db_backup.sqlite3 holds what db.sqlite3 held at the start,
\* whatever backup was there before, and before it nothing was read,
\* printed or written; db.sqlite3 never changes; with db.sqlite3 absent
\* an existing db_backup.sqlite3 is left as it was.
C7_BackupFirst ==
    /\ db = start.db
    /\ gpc = "start" => reads = {} /\ out = << >> /\ themecfg = start.themecfg
    /\ (start.db # "absent" /\ gpc # "start") => dbBackup = start.db
    /\ start.db = "absent" => dbBackup = start.dbBackup

\* a completed run has replaced the older backup B0 by the database D1
C7_Witness ==
    /\ gpc = "done" /\ start.db = "D1" /\ start.dbBackup = "B0" /\ dbBackup = "D1"

Fonts == AllFonts(themeindices)
Faces == SelectSeq(themecss, LAMBDA k : k.t = "fontface")
RECURSIVE FontsBefore(_)
FontsBefore(i) == IF i <= 1 THEN 0 ELSE FontsBefore(i - 1) + Len(themeindices[i - 1].fonts)
\* the @font-face rules generated for the fonts of the i-th discovered theme
FacesOf(i) ==
    [k \in 1..Len(themeindices[i].fonts) |-> Faces[FontsBefore(i) + k]]
\* the discovered theme that themes[int_name] holds at the end: the last one
WrittenFrom(n) ==
    CHOOSE i \in 1..Len(themeindices) :
        /\ themeindices[i].int_name = n
        /\ \A j \in 1..Len(themeindices) : themeindices[j].int_name = n => j <= i

\* C8: the css of every theme written to the registry is the minified
\* concatenation of the @font-face rules of that theme's own fonts, the
\* base stylesheet and the theme's css file, and holds no @font-face rule
\* of a font only another theme declares.
C8_CssHoldsOwnFontsOnly ==
    gpc = "done" =>
        \A n \in DOMAIN themecfg.data :
            LET i == WrittenFrom(n)
                th == themeindices[i]
                css == themecfg.data[n].css
            IN /\ css = FacesOf(i) \o <<Rule(BaseCssPath), Rule(th.css)>>
               /\ \A k \in 1..Len(css) :
                    css[k].t = "fontface" =>
                        \E f \in 1..Len(th.fonts) : th.fonts[f].path = css[k].data

\* the same statement when the fonts of the run all belong to one theme
\* and that theme is the only one discovered: there the code agrees with it
CssHoldsOwnFontsIfSingleTheme ==
    Len(themeindices) <= 1 => C8_CssHoldsOwnFontsOnly

\* C10: a font with extension .otf or .ttf is embedded as opentype or
\* truetype whatever came before; a font with any other extension is
\* embedded with the format of the font processed just before it in the
\* run, of whichever theme; when such a font is the first of the run, the
\* run fails and themecfg.json is as the run found it.
C10_FontFormatCarriedOver ==
    /\ gpc \in {"fonts", "base", "compiled", "done"} =>
        /\ Len(Faces) = Len(Fonts)
        /\ \A j \in 1..Len(Fonts) :
            LET e == Suffix(Fonts[j].path)
            IN /\ Faces[j].data = Fonts[j].path /\ Faces[j].family = Fonts[j].family
               /\ Faces[j].filetype =
                    IF e = ".otf" THEN "opentype"
                    ELSE IF e = ".ttf" THEN "truetype"
                    ELSE Faces[j - 1].filetype
    /\ (gpc \notin {"start", "backed", "loaded", "discovered"}
            /\ Fonts # << >> /\ Suffix(Fonts[1].path) \notin {".otf", ".ttf"}) =>
        gpc = "crashed" /\ themecfg = start.themecfg

\* a completed run embedded the .woff font of the second theme as
\* opentype, the format of the first theme's .otf font
C10_Witness ==
    /\ gpc = "done" /\ Len(themeindices) = 2
    /\ Len(themeindices[1].fonts) = 1 /\ themeindices[1].fonts[1].path = "a.otf"
    /\ Len(themeindices[2].fonts) >= 1 /\ themeindices[2].fonts[1].path = "c.woff"
    /\ themeindices[2].int_name \in DOMAIN themecfg.data
    /\ \E k \in 1..Len(themecfg.data[themeindices[2].int_name].css) :
        LET r == themecfg.data[themeindices[2].int_name].css[k]
        IN r.t = "fontface" /\ r.data = "c.woff" /\ r.filetype = "opentype"

(***************************************************************************)
(* Properties of lib.py                                                    *)
(***************************************************************************)
ThemeWarning(tname) == Msg("WARNING: Theme not found, using default", tname)

\* C1: with a "default" entry in the registry, theme(name) returns the
\* registry entry for name when name is a key, and otherwise logs one
\* warning and returns exactly the "default" entry (name = None included);
\* the registry is unchanged either way.
C1_ThemeFallback ==
    [][(call'.fn = "theme" /\ "default" \in DOMAIN themes) =>
        /\ themes' = themes
        /\ IF call'.arg \in DOMAIN themes
           THEN ret' = Value(themes[call'.arg]) /\ log' = log
           ELSE ret' = Value(themes["default"])
                /\ log' = Append(log, ThemeWarning(call'.arg))]_vars

\* theme(None) has fallen back to a "default" entry that differs from "dark"
C1_Witness ==
    /\ call = [fn |-> "theme", arg |-> NoneV]
    /\ DOMAIN themes = {"default", "dark"}
    /\ ret = Value(themes["default"])
    /\ Len(log) > 0 /\ log[Len(log)] = ThemeWarning(NoneV)

\* C2: whether config/config.json was present (and well formed) or absent,
\* importing the module completes without raising, and afterwards
\* getconfig(key) returns the value stored under key or returns None.
C2_ConfigNeverRaises ==
    /\ (call.fn = "import" /\ cfgfile.state \in {"absent", "ok"}
            /\ themefile.state # "malformed") => lpc = "ready"
    /\ call.fn = "getconfig" =>
        IF call.arg \in DOMAIN jsondata THEN ret = Value(jsondata[call.arg])
        ELSE ret = PyNone

\* C3: mkcontext fails only when theme() does, and the context it returns
\* holds fa, jq, ts, s2 with the values of the profile table: font ->
\* (T,F,F,F), form -> (F,T,F,T), table -> (T,T,T,F), anything else and the
\* omitted argument -> (F,F,F,F).
C3_ScriptFlagTable ==
    call.fn = "mkcontext" =>
        LET cookie == call.arg[1]
            a == call.arg[2]
            c == ret.val
        IN IF cookie \notin DOMAIN themes /\ "default" \notin DOMAIN themes
           THEN ret.kind = "raise"
           ELSE /\ ret.kind = "value"
                /\ {"fa", "jq", "ts", "s2"} \subseteq DOMAIN c
                /\ <<c.fa, c.jq, c.ts, c.s2>> =
                     CASE a = "font" -> <<TRUE, FALSE, FALSE, FALSE>>
                       [] a = "form" -> <<FALSE, TRUE, FALSE, TRUE>>
                       [] a = "table" -> <<TRUE, TRUE, TRUE, FALSE>>
                       [] OTHER -> <<FALSE, FALSE, FALSE, FALSE>>

\* mkcontext(..., scripts = "table") has returned a context
C3_Witness ==
    /\ call.fn = "mkcontext" /\ call.arg[2] = "table"
    /\ ret.kind = "value" /\ ret.val.ts /\ ret.val.fa /\ ret.val.jq /\ ~ret.val.s2

(***************************************************************************)
(* Properties of hsize                                                     *)
(***************************************************************************)
\* index of the highest non-zero limb: the k with 1024^k <= n < 1024^(k+1)
ExactTop(m) ==
    LET S == {i \in Limbs : m[i] # 0}
    IN IF S = {} THEN 0 ELSE CHOOSE i \in S : \A j \in S : j <= i

\* C4: for k in 0..7 and 1024^k <= n < 1024^(k+1) (and n = 0 with k = 0),
\* hsize(n) uses the k-th prefix of [none, Ki, Mi, Gi, Ti, Pi, Ei, Zi], shows
\* n / 1024^k rounded to 0 decimals (n itself when k = 0) and ends in "Bytes".
C4_HsizeUnitByMagnitude ==
    (hout.kind # "none" /\ ExactTop(hin) < Len(Units)) =>
        LET k == ExactTop(hin)
        IN /\ hout.kind = "return"
           /\ hout.unit = Units[k + 1]
           /\ hout.suffix = "Bytes"
           /\ hout.mag = RoundHE(hin, k)

\* the same statement for the byte counts a float64 holds exactly
\* (n < 2^53, so k <= 5): there the code agrees with it
HsizeExactBelow2p53 ==
    (hout.kind # "none" /\ TopBit(hin) < MantBits) =>
        LET k == ExactTop(hin)
        IN /\ hout.kind = "return"
           /\ hout.unit = Units[k + 1]
           /\ hout.suffix = "Bytes"
           /\ hout.mag = RoundHE(hin, k)

InitLib == LibInit /\ HIdle /\ MIdle /\ GIdle
NextLib == ImportLib \/ GetConfigCall \/ ThemeCall \/ MkContextCall
SpecLib == InitLib /\ [][NextLib]_vars

InitModels == MInit /\ HIdle /\ LibIdle /\ GIdle
NextModels == ConfigModelsCall \/ ConfigFieldsCall
SpecModels == InitModels /\ [][NextModels]_vars

InitHsize == HInit /\ LibIdle /\ MIdle /\ GIdle
NextHsize == HsizeCall
SpecHsize == InitHsize /\ [][NextHsize]_vars

InitGen == GInit /\ HIdle /\ LibIdle /\ MIdle
NextGen ==
    Backup \/ LoadConfig \/ Discover \/ FontFaces \/ BaseCss \/ Compile \/ WriteRegistry
SpecGen == InitGen /\ [][NextGen]_vars

====
